---- MODULE Spec2Model ----
(***************************************************************************)
(* Model of script/peft_lora_embedding_semantic_search.py:                 *)
(*   - iterable_dataset_generator over the TinyDB document store,          *)
(*   - save_model_hook / load_model_hook,                                  *)
(*   - the training loop of main() (setup, resume, epochs, batches,        *)
(*     gradient accumulation, checkpointing).                              *)
(***************************************************************************)
EXTENDS Integers, Sequences, FiniteSets, TLC

\* ------------------------------------------------------------------ bounds
MaxRows == 2          \* rows of the source csv file
MaxChunk == 2         \* batch_size argument of iterable_dataset_generator
MaxInvocations == 2   \* generator invocations on one store file
NumProcs == 2         \* processes that read the store file

Min(a, b) == IF a < b THEN a ELSE b

\* math.ceil(a / b) for a >= 0, b > 0
Ceil(a, b) == (a + b - 1) \div b

\* ------------------------------------------------------ generator variables
VARIABLES
    fileRows,     \* number of data rows of the csv file (df = pd.read_csv(file))
    batch_size,   \* the generator's batch_size argument
    db,           \* the default table of the TinyDB file: db[i] is the document with doc_id i
    gpc,          \* per process: position of its generator object
    gids,         \* per process: the shuffled list ids
    gchunks,      \* per process: the chunks (sub_ids) still to fetch
    gdocs,        \* per process: documents of the current chunk still to yield
    gout,         \* per process: the records yielded by the current invocation
    gbase,        \* per process: len(db) when the current invocation opened the store
    invoked,      \* number of invocations so far
    firstOut      \* <<records>> of the first invocation that ran to completion, <<>> before

genVars == <<fileRows, batch_size, db, gpc, gids, gchunks, gdocs, gout, gbase, invoked, firstOut>>

\* ------------------------------------------------------------ hook variables
VARIABLES
    hook,         \* which hook is called: "save" or "load"
    hmodels,      \* the list models passed to the hook
    hweights,     \* the list weights passed to save_model_hook
    hweights0,    \* the list weights as it was at the call
    hi,           \* the index i of enumerate(models) in save_model_hook
    hsaved,       \* the save_pretrained calls made: <<model, state_dict>>
    hpopped,      \* the entries weights.pop() removed, in order
    hloaded,      \* the models load_adapter was called on
    hpc           \* "loop", "returned" or "IndexError"

hookVars == <<hook, hmodels, hweights, hweights0, hi, hsaved, hpopped, hloaded, hpc>>

\* -------------------------------------------------------- training variables
VARIABLES
    args,                        \* the parsed command line (parse_args)
    accel_num_steps,             \* accelerator.gradient_state.num_steps
    pc,                          \* position of main(): "setup", "resume", "epoch", "batch", "eval", "done", "crashed"
    crash,                       \* the exception that ended main(), "none" if none
    len_train,
    num_update_steps_per_epoch,
    max_train_steps,             \* args.max_train_steps after lines 467-488
    num_train_epochs,            \* args.num_train_epochs after line 490
    checkpointing_steps,
    completed_steps,
    starting_epoch,
    resume_step,
    epoch,
    step,                        \* index of enumerate(active_dataloader)
    batches,                     \* batches active_dataloader still holds
    skipped,                     \* batches skip_first_batches dropped in this epoch
    total_loss,
    accel_step,                  \* accelerator.step, the accumulation counter
    grads,                       \* batches whose gradients the parameters' .grad holds
    updates,                     \* optimizer updates applied
    saved,                       \* the checkpoints accelerator.save_state wrote, in order
    epochsRun,                   \* the epochs whose body ran to its end
    last                         \* what the last training batch did

trainVars == <<args, accel_num_steps, pc, crash, len_train, num_update_steps_per_epoch,
               max_train_steps, num_train_epochs, checkpointing_steps, completed_steps,
               starting_epoch, resume_step, epoch, step, batches, skipped, total_loss,
               accel_step, grads, updates, saved, epochsRun, last>>

\* --------------------------------------------------- multi-process variables
VARIABLES
    mcfg,         \* the options every process parsed: checkpointing, output_dir, sizes
    mpc,          \* per process: position in the loop of main()
    mepoch,       \* per process: epoch
    mstep,        \* per process: batches of this epoch processed
    mcompleted,   \* per process: completed_steps
    mwrites       \* the writes to the checkpoint directory made so far

mpVars == <<mcfg, mpc, mepoch, mstep, mcompleted, mwrites>>

\* ------------------------------------------------------------ loss variables
VARIABLES
    cosine_score, \* the batch's cosine similarities, in units of 1/Scale
    labels,       \* the batch's labels
    loss,         \* get_loss of the batch as <<numerator, denominator>>, <<>> before the call
    lpc           \* "call" or "returned"

lossVars == <<cosine_score, labels, loss, lpc>>

restVars == <<mpVars, lossVars>>

vars == <<genVars, hookVars, trainVars, restVars>>

Procs == 1..NumProcs

\* df.to_dict(orient="records"): one record per row, in file order.
\* A row is identified by its position in the file.
ToRecords(n) == [r \in 1..n |-> [row |-> r]]

\* TinyDB insert_multiple: every document gets the next free doc_id, which is
\* (largest doc_id in the table) + 1, starting from 1 for an empty table.
InsertMultiple(table, records) == table \o records

\* list(range(len(db)))
RangeLen(table) == 0..(Len(table) - 1)

\* random.shuffle(ids): any ordering of the ids
RECURSIVE Perms(_)
Perms(S) == IF S = {} THEN {<<>>}
            ELSE UNION {{<<x>> \o p : p \in Perms(S \ {x})} : x \in S}

\* [ids[i : i + batch_size] for i in range(0, len(ids), batch_size)]
Chunks(ids, bs) ==
    [k \in 1..Ceil(Len(ids), bs) |-> SubSeq(ids, (k - 1) * bs + 1, Min(k * bs, Len(ids)))]

SeqToSet(s) == {s[i] : i \in 1..Len(s)}

\* TinyDB Table.get(doc_ids=ids): the documents of the table whose doc_id is one of
\* ids, in table order; an id the table does not hold contributes nothing.
DbGet(table, ids) ==
    LET F[i \in 0..Len(table)] ==
            IF i = 0 THEN <<>>
            ELSE IF i \in ids
                 THEN Append(F[i - 1], [doc_id |-> i, fields |-> table[i]])
                 ELSE F[i - 1]
    IN F[Len(table)]

\* get_data(sub_ids)
get_data(table, sub_ids) == DbGet(table, SeqToSet(sub_ids))

\* dict(doc): the document's columns without its doc_id
ToDict(doc) == doc.fields

GenInit ==
    /\ fileRows \in 0..MaxRows
    /\ batch_size \in 1..MaxChunk
    /\ db = <<>>
    /\ gpc = [p \in Procs |-> "idle"]
    /\ gids = [p \in Procs |-> <<>>]
    /\ gchunks = [p \in Procs |-> <<>>]
    /\ gdocs = [p \in Procs |-> <<>>]
    /\ gout = [p \in Procs |-> <<>>]
    /\ gbase = [p \in Procs |-> 0]
    /\ invoked = 0
    /\ firstOut = <<>>

\* Lines 213-229: the generator body up to the chunk list. Every invocation reads
\* the csv, opens the store file and inserts all rows again.
GenStart(p) ==
    /\ gpc[p] \in {"idle", "closed", "abandoned"}
    /\ invoked < MaxInvocations
    /\ LET table == InsertMultiple(db, ToRecords(fileRows))
       IN /\ db' = table
          /\ \E ids \in Perms(RangeLen(table)) :
                /\ gids' = [gids EXCEPT ![p] = ids]
                /\ gchunks' = [gchunks EXCEPT ![p] = Chunks(ids, batch_size)]
    /\ gbase' = [gbase EXCEPT ![p] = Len(db)]
    /\ gdocs' = [gdocs EXCEPT ![p] = <<>>]
    /\ gout' = [gout EXCEPT ![p] = <<>>]
    /\ gpc' = [gpc EXCEPT ![p] = "running"]
    /\ invoked' = invoked + 1
    /\ UNCHANGED <<fileRows, batch_size, firstOut>>
    /\ UNCHANGED <<hookVars, trainVars, restVars>>

\* Lines 229-230: the outer loop takes the next chunk and reads it from the store.
GenGetData(p) ==
    /\ gpc[p] = "running"
    /\ gdocs[p] = <<>>
    /\ gchunks[p] # <<>>
    /\ gdocs' = [gdocs EXCEPT ![p] = get_data(db, Head(gchunks[p]))]
    /\ gchunks' = [gchunks EXCEPT ![p] = Tail(gchunks[p])]
    /\ UNCHANGED <<fileRows, batch_size, db, gpc, gids, gout, gbase, invoked, firstOut>>
    /\ UNCHANGED <<hookVars, trainVars, restVars>>

\* Line 231: yield dict(doc)
GenYield(p) ==
    /\ gpc[p] = "running"
    /\ gdocs[p] # <<>>
    /\ gout' = [gout EXCEPT ![p] = Append(gout[p], ToDict(Head(gdocs[p])))]
    /\ gdocs' = [gdocs EXCEPT ![p] = Tail(gdocs[p])]
    /\ UNCHANGED <<fileRows, batch_size, db, gpc, gids, gchunks, gbase, invoked, firstOut>>
    /\ UNCHANGED <<hookVars, trainVars, restVars>>

\* Line 233: the loops are exhausted, db.close() and the generator returns.
GenClose(p) ==
    /\ gpc[p] = "running"
    /\ gdocs[p] = <<>>
    /\ gchunks[p] = <<>>
    /\ gpc' = [gpc EXCEPT ![p] = "closed"]
    /\ firstOut' = IF firstOut = <<>> THEN <<gout[p]>> ELSE firstOut
    /\ UNCHANGED <<fileRows, batch_size, db, gids, gchunks, gdocs, gout, gbase, invoked>>
    /\ UNCHANGED <<hookVars, trainVars, restVars>>

\* Line 388: next(iter(dataset["train"])) takes the first record and drops the
\* generator; the store keeps what the invocation inserted.
GenAbandon(p) ==
    /\ gpc[p] = "running"
    /\ Len(gout[p]) = 1
    /\ gpc' = [gpc EXCEPT ![p] = "abandoned"]
    /\ UNCHANGED <<fileRows, batch_size, db, gids, gchunks, gdocs, gout, gbase, invoked, firstOut>>
    /\ UNCHANGED <<hookVars, trainVars, restVars>>

GenNext ==
    \E p \in Procs :
        \/ GenStart(p)
        \/ GenGetData(p)
        \/ GenYield(p)
        \/ GenClose(p)
        \/ GenAbandon(p)


MaxModels == 4        \* models (and weight entries) pending in one hook call

\* The lists a hook can be called with: k models, each a PEFT model or not, and for
\* save_model_hook entry i of weights is the state dict of model i.
ModelLists ==
    UNION {[1..k -> [id : {0}, peft : BOOLEAN]] : k \in 1..MaxModels}

WithIds(ms) == [i \in 1..Len(ms) |-> [id |-> i, peft |-> ms[i].peft]]

StateDicts(ms) == [i \in 1..Len(ms) |-> [state_dict_of |-> ms[i].id]]

HookInit ==
    /\ hook \in {"save", "load"}
    /\ \E ms \in ModelLists :
          /\ hmodels = WithIds(ms)
          /\ hweights = IF hook = "save" THEN StateDicts(WithIds(ms)) ELSE <<>>
          /\ hweights0 = hweights
    /\ hi = 0
    /\ hsaved = <<>>
    /\ hpopped = <<>>
    /\ hloaded = <<>>
    /\ hpc = "loop"

\* list.pop(): removes the last entry
PopLast(l) == SubSeq(l, 1, Len(l) - 1)

\* Lines 242-245, one iteration of the loop (hi counts from 0 as enumerate does):
\* weights[i] raises IndexError when the list has no entry i.
SaveHookIter ==
    /\ hook = "save"
    /\ hpc = "loop"
    /\ hi < Len(hmodels)
    /\ IF hi + 1 > Len(hweights)
       THEN /\ hpc' = "IndexError"
            /\ UNCHANGED <<hweights, hi, hsaved, hpopped>>
       ELSE /\ hsaved' = Append(hsaved, <<hmodels[hi + 1], hweights[hi + 1]>>)
            /\ hpopped' = Append(hpopped, hweights[Len(hweights)])
            /\ hweights' = PopLast(hweights)
            /\ hi' = hi + 1
            /\ hpc' = hpc
    /\ UNCHANGED <<hook, hmodels, hweights0, hloaded>>
    /\ UNCHANGED <<genVars, trainVars, restVars>>

\* Line 242: enumerate(models) is exhausted, the hook returns.
SaveHookReturn ==
    /\ hook = "save"
    /\ hpc = "loop"
    /\ hi = Len(hmodels)
    /\ hpc' = "returned"
    /\ UNCHANGED <<hook, hmodels, hweights, hweights0, hi, hsaved, hpopped, hloaded>>
    /\ UNCHANGED <<genVars, trainVars, restVars>>

\* Lines 249-253, one iteration: pop the last model, load its adapter if it has one.
LoadHookIter ==
    /\ hook = "load"
    /\ hpc = "loop"
    /\ Len(hmodels) > 0
    /\ LET model == hmodels[Len(hmodels)]
       IN /\ hmodels' = PopLast(hmodels)
          /\ hloaded' = IF model.peft THEN Append(hloaded, model) ELSE hloaded
    /\ UNCHANGED <<hook, hweights, hweights0, hi, hsaved, hpopped, hpc>>
    /\ UNCHANGED <<genVars, trainVars, restVars>>

\* Line 249: len(models) = 0, the hook returns.
LoadHookReturn ==
    /\ hook = "load"
    /\ hpc = "loop"
    /\ Len(hmodels) = 0
    /\ hpc' = "returned"
    /\ UNCHANGED <<hook, hmodels, hweights, hweights0, hi, hsaved, hpopped, hloaded>>
    /\ UNCHANGED <<genVars, trainVars, restVars>>

HookNext ==
    \/ SaveHookIter
    \/ SaveHookReturn
    \/ LoadHookIter
    \/ LoadHookReturn

\* ------------------------------------------------------------ training loop
MaxBatch == 2         \* per_device_train_batch_size
MaxAccum == 2         \* gradient_accumulation_steps, and the accelerator's own setting
MaxEpochs == 2        \* num_train_epochs, and the epoch of an epoch_<e> checkpoint
MaxSteps == 3         \* max_train_steps, and the n of a step_<n> checkpoint
MaxInterval == 2      \* numeric checkpointing_steps

NoInt == [st |-> "None", v |-> 0]
Unbound == [st |-> "unbound", v |-> 0]
IntVal(n) == [st |-> "int", v |-> n]

\* parse_args: the values of the options the loop reads
ArgValues ==
    [dataset_handling : {"memory", "streaming"},
     per_device_train_batch_size : 1..MaxBatch,
     gradient_accumulation_steps : 1..MaxAccum,
     num_train_epochs : 1..MaxEpochs,
     max_train_steps : {NoInt} \cup {IntVal(n) : n \in 1..MaxSteps},
     checkpointing_steps : {[kind |-> "None", n |-> 0], [kind |-> "epoch", n |-> 0]}
                           \cup {[kind |-> "digits", n |-> k] : k \in 1..MaxInterval},
     output_dir : {"None", "out"},
     with_tracking : BOOLEAN,
     resume_from_checkpoint : {[kind |-> "None", n |-> 0]}
                              \cup {[kind |-> "epoch", n |-> e] : e \in 0..(MaxEpochs - 1)}
                              \cup {[kind |-> "step", n |-> k] : k \in 1..MaxSteps}]

NoBatch == [acted |-> FALSE, updated |-> FALSE, contrib |-> 0, eod |-> FALSE,
            zeroed |-> FALSE, before |-> 0, savedStep |-> FALSE]

\* Lines 308-312: Accelerator(...) is built without gradient_accumulation_steps, so the
\* accelerator's setting is its default 1 or what the launch environment gives it; it
\* is never args.gradient_accumulation_steps.
TrainInit ==
    /\ args \in ArgValues
    /\ accel_num_steps \in 1..MaxAccum
    /\ fileRows \in 1..MaxRows
    /\ db = <<>>
    /\ batch_size = 1
    /\ gpc = [p \in Procs |-> "idle"]
    /\ gids = [p \in Procs |-> <<>>]
    /\ gchunks = [p \in Procs |-> <<>>]
    /\ gdocs = [p \in Procs |-> <<>>]
    /\ gout = [p \in Procs |-> <<>>]
    /\ gbase = [p \in Procs |-> 0]
    /\ invoked = 0
    /\ firstOut = <<>>
    /\ pc = "setup"
    /\ crash = "none"
    /\ len_train = 0
    /\ num_update_steps_per_epoch = 0
    /\ max_train_steps = 0
    /\ num_train_epochs = 0
    /\ checkpointing_steps = [type |-> "NoneType", n |-> 0]
    /\ completed_steps = 0
    /\ starting_epoch = 0
    /\ resume_step = Unbound
    /\ epoch = 0
    /\ step = 0
    /\ batches = 0
    /\ skipped = 0
    /\ total_loss = Unbound
    /\ accel_step = 0
    /\ grads = 0
    /\ updates = 0
    /\ saved = <<>>
    /\ epochsRun = {}
    /\ last = NoBatch

genRest == <<batch_size, gpc, gids, gchunks, gdocs, gout, gbase, invoked, firstOut>>

\* Lines 198-233 run to the end by one consumer: the number of records one pass of
\* the generator yields from the table it has just inserted into.
PassRecords(table) == Len(DbGet(table, RangeLen(table)))

\* Lines 390-393: the lines of the csv file, its header line included
FileLines(n) == n + 1

\* Lines 366 and 390-393
LenTrain(handling, n) == IF handling = "memory" THEN n ELSE FileLines(n)

\* Lines 466 and 486
UpdateStepsPerEpoch(len, accum) == Ceil(len, accum)

\* Lines 467-468 and 487-488
MaxTrainSteps(a, perEpoch) ==
    IF a.max_train_steps = NoInt THEN a.num_train_epochs * perEpoch
    ELSE a.max_train_steps.v

\* Lines 493-495: a string of digits becomes an int, any other string stays a string
ParseCheckpointingSteps(c) ==
    IF c.kind = "None" THEN [type |-> "NoneType", n |-> 0]
    ELSE IF c.kind = "digits" THEN [type |-> "int", n |-> c.n]
    ELSE [type |-> "str", n |-> 0]

\* Lines 358-395 and 464-495. In streaming mode the preview of line 388 invokes the
\* generator once and takes one record: the invocation inserts the rows, and next()
\* raises StopIteration when the pass has no record.
Setup ==
    /\ pc = "setup"
    /\ LET streaming == args.dataset_handling = "streaming"
           table == IF streaming THEN InsertMultiple(db, ToRecords(fileRows)) ELSE db
           len == LenTrain(args.dataset_handling, fileRows)
           perEpoch == UpdateStepsPerEpoch(len, args.gradient_accumulation_steps)
           maxSteps == MaxTrainSteps(args, perEpoch)
       IN /\ db' = table
          /\ IF streaming /\ PassRecords(table) = 0
             THEN /\ pc' = "crashed"
                  /\ crash' = "StopIteration@388"
                  /\ UNCHANGED <<len_train, num_update_steps_per_epoch, max_train_steps,
                                 num_train_epochs, checkpointing_steps>>
             ELSE /\ pc' = "resume"
                  /\ crash' = crash
                  /\ len_train' = len
                  /\ num_update_steps_per_epoch' = perEpoch
                  /\ max_train_steps' = maxSteps
                  /\ num_train_epochs' = Ceil(maxSteps, perEpoch)
                  /\ checkpointing_steps' = ParseCheckpointingSteps(args.checkpointing_steps)
    /\ UNCHANGED <<args, accel_num_steps, completed_steps, starting_epoch, resume_step,
                   epoch, step, batches, skipped, total_loss, accel_step, grads, updates,
                   saved, epochsRun, last>>
    /\ UNCHANGED <<fileRows, genRest, hookVars, restVars>>

\* Line 555 without its + 1: the loop would start again at the checkpointed epoch
EpochResumeStart_SameEpoch(e) == e

\* Line 555
EpochResumeStart(e) == e + 1

\* Lines 560-563
StepResumeStep(n, accum) == n * accum

\* Lines 551-566: what the parsing of the checkpoint name assigns. The step branch
\* ends at line 566, which reads args.gradient_accumulation_stepp: the namespace has
\* no such attribute, so completed_steps keeps its initial 0.
ResumeOutcome(r, len, perEpoch, accum) ==
    IF r.kind = "epoch"
    THEN [crash |-> "none",
          starting_epoch |-> EpochResumeStart(r.n),
          resume_step |-> NoInt,
          completed_steps |-> EpochResumeStart(r.n) * perEpoch]
    ELSE LET rs == StepResumeStep(r.n, accum)
         IN [crash |-> "AttributeError@566",
             starting_epoch |-> rs \div len,
             resume_step |-> IntVal(rs - (rs \div len) * len),
             completed_steps |-> 0]

\* Lines 536-569
Resume ==
    /\ pc = "resume"
    /\ LET r == args.resume_from_checkpoint
           o == ResumeOutcome(r, len_train, num_update_steps_per_epoch,
                              args.gradient_accumulation_steps)
       IN IF r.kind = "None"
          THEN /\ pc' = "epoch"
               /\ epoch' = starting_epoch
               /\ UNCHANGED <<crash, starting_epoch, resume_step, completed_steps>>
          ELSE /\ starting_epoch' = o.starting_epoch
               /\ resume_step' = o.resume_step
               /\ completed_steps' = o.completed_steps
               /\ crash' = o.crash
               /\ pc' = IF o.crash = "none" THEN "epoch" ELSE "crashed"
               /\ epoch' = IF o.crash = "none" THEN o.starting_epoch ELSE epoch
    /\ UNCHANGED <<args, accel_num_steps, len_train, num_update_steps_per_epoch,
                   max_train_steps, num_train_epochs, checkpointing_steps, step, batches,
                   skipped, total_loss, accel_step, grads, updates, saved, epochsRun, last>>
    /\ UNCHANGED <<genVars, hookVars, restVars>>

\* DataLoader(batch_size=..., drop_last=False): the batches of one pass
NumBatches(records, bs) == Ceil(records, bs)

\* Lines 575-585: the batches skip_first_batches drops
SkipBatches(a, ep, start, rs) ==
    IF a.resume_from_checkpoint.kind # "None" /\ ep = start /\ rs.st = "int"
    THEN rs.v
    ELSE 0

\* Lines 571-588: the next epoch of range(starting_epoch, num_train_epochs) begins.
\* In streaming mode iterating the dataloader invokes the generator again.
EpochStart ==
    /\ pc = "epoch"
    /\ epoch < num_train_epochs
    /\ LET streaming == args.dataset_handling = "streaming"
           table == IF streaming THEN InsertMultiple(db, ToRecords(fileRows)) ELSE db
           records == IF streaming THEN PassRecords(table) ELSE fileRows
           all == NumBatches(records, args.per_device_train_batch_size)
           skip == Min(SkipBatches(args, epoch, starting_epoch, resume_step), all)
       IN /\ db' = table
          /\ skipped' = skip
          /\ batches' = all - skip
          /\ pc' = IF all - skip = 0 THEN "eval" ELSE "batch"
    /\ total_loss' = IF args.with_tracking THEN IntVal(0) ELSE total_loss
    /\ step' = 0
    /\ UNCHANGED <<args, accel_num_steps, crash, len_train, num_update_steps_per_epoch,
                   max_train_steps, num_train_epochs, checkpointing_steps, completed_steps,
                   starting_epoch, resume_step, epoch, accel_step, grads, updates, saved,
                   epochsRun, last>>
    /\ UNCHANGED <<fileRows, genRest, hookVars, restVars>>

\* Line 589, accelerator.accumulate: on the last batch of the dataloader the
\* gradients are synchronised and the counter restarts; otherwise the counter is
\* advanced and gradients are synchronised on every num_steps-th batch.
DoSync(counter, numSteps, endOfDataloader) ==
    IF endOfDataloader THEN [step |-> 0, sync_gradients |-> TRUE]
    ELSE [step |-> counter + 1, sync_gradients |-> ((counter + 1) % numSteps = 0)]

\* Lines 625-626
ShouldSaveStep(cs, completed) == cs.type = "int" /\ completed % cs.n = 0

\* Line 632
ReachedMax(completed, maxSteps) == completed >= maxSteps

\* Lines 588-633: one training batch. optimizer.step() and lr_scheduler.step() are the
\* accelerator's wrappers and act only when gradients are synchronised;
\* model.zero_grad() is the module's own method and clears the gradients every time.
TrainBatch ==
    /\ pc = "batch"
    /\ batches > 0
    /\ IF total_loss.st = "unbound"
       THEN /\ pc' = "crashed"
            /\ crash' = "UnboundLocalError@607"
            /\ UNCHANGED <<completed_steps, step, batches, total_loss, accel_step, grads,
                           updates, saved, last>>
       ELSE LET eod == batches = 1
                s == DoSync(accel_step, accel_num_steps, eod)
                contrib == grads + 1
                completed == IF s.sync_gradients THEN completed_steps + 1 ELSE completed_steps
                save == ShouldSaveStep(checkpointing_steps, completed)
            IN /\ accel_step' = s.step
               /\ total_loss' = IntVal(total_loss.v + 1)
               /\ updates' = IF s.sync_gradients THEN updates + 1 ELSE updates
               /\ grads' = 0
               /\ completed_steps' = completed
               /\ saved' = IF save THEN Append(saved, [kind |-> "step", n |-> completed])
                           ELSE saved
               /\ last' = [acted |-> TRUE, updated |-> s.sync_gradients, contrib |-> contrib,
                           eod |-> eod, zeroed |-> TRUE, before |-> completed_steps,
                           savedStep |-> save]
               /\ step' = step + 1
               /\ batches' = batches - 1
               /\ pc' = IF ReachedMax(completed, max_train_steps) \/ eod THEN "eval" ELSE "batch"
               /\ crash' = crash
    /\ UNCHANGED <<args, accel_num_steps, len_train, num_update_steps_per_epoch,
                   max_train_steps, num_train_epochs, checkpointing_steps, starting_epoch,
                   resume_step, epoch, skipped, epochsRun>>
    /\ UNCHANGED <<genVars, hookVars, restVars>>

\* Lines 669-675: the epoch checkpoint is inside "if args.output_dir is not None"
ShouldSaveEpoch(a, cs) == a.output_dir # "None" /\ cs.type = "str"

\* Lines 635-694: evaluation, the epoch's log, the epoch checkpoint and the model
\* save; total_loss.item() needs the tensor a training batch has added.
EvalAndSave ==
    /\ pc = "eval"
    /\ IF args.with_tracking /\ total_loss = IntVal(0)
       THEN /\ pc' = "crashed"
            /\ crash' = "AttributeError@666"
            /\ UNCHANGED <<saved, epochsRun, epoch>>
       ELSE /\ saved' = IF ShouldSaveEpoch(args, checkpointing_steps)
                        THEN Append(saved, [kind |-> "epoch", n |-> epoch])
                        ELSE saved
            /\ epochsRun' = epochsRun \cup {epoch}
            /\ epoch' = epoch + 1
            /\ pc' = "epoch"
            /\ crash' = crash
    /\ UNCHANGED <<args, accel_num_steps, len_train, num_update_steps_per_epoch,
                   max_train_steps, num_train_epochs, checkpointing_steps, completed_steps,
                   starting_epoch, resume_step, step, batches, skipped, total_loss,
                   accel_step, grads, updates, last>>
    /\ UNCHANGED <<genVars, hookVars, restVars>>

\* Lines 571 and 695: range(starting_epoch, num_train_epochs) is exhausted
EndTraining ==
    /\ pc = "epoch"
    /\ epoch >= num_train_epochs
    /\ pc' = "done"
    /\ UNCHANGED <<args, accel_num_steps, crash, len_train, num_update_steps_per_epoch,
                   max_train_steps, num_train_epochs, checkpointing_steps, completed_steps,
                   starting_epoch, resume_step, epoch, step, batches, skipped, total_loss,
                   accel_step, grads, updates, saved, epochsRun, last>>
    /\ UNCHANGED <<genVars, hookVars, restVars>>

TrainNext ==
    \/ Setup
    \/ Resume
    \/ EpochStart
    \/ TrainBatch
    \/ EvalAndSave
    \/ EndTraining

\* ------------------------------------------- checkpoint writes of the processes
MaxProcBatches == 2   \* batches of one epoch on each process

\* accelerator.is_main_process: the process of index 0, here the first of Procs
is_main_process(p) == p = 1

\* The options, the same on every process; checkpointing_steps as parsed by lines 493-495
ProcConfigs ==
    [checkpointing_steps : {ParseCheckpointingSteps(c) : c \in
                               {[kind |-> "None", n |-> 0], [kind |-> "epoch", n |-> 0]}
                               \cup {[kind |-> "digits", n |-> k] : k \in 1..MaxInterval}},
     output_dir : {"None", "out"},
     num_batches : 1..MaxProcBatches,
     num_train_epochs : 1..MaxEpochs,
     max_train_steps : 1..MaxSteps]

ProcInit ==
    /\ mcfg \in ProcConfigs
    /\ mpc = [p \in Procs |-> "batch"]
    /\ mepoch = [p \in Procs |-> 0]
    /\ mstep = [p \in Procs |-> 0]
    /\ mcompleted = [p \in Procs |-> 0]
    /\ mwrites = {}

\* A collective operation (a gradient all-reduce, a gather, wait_for_everyone)
\* returns on every process once every process has entered it.
AllAt(where) == \A q \in Procs : mpc[q] = where

\* Lines 670-694: the section between the two wait_for_everyone calls
InSaveSection(q, e) == mpc[q] \in {"save", "wait2"} /\ mepoch[q] = e

\* A write is bracketed by a barrier when every other process is held between the
\* barrier before it and the barrier after it.
Bracketed(p, e) == \A q \in Procs \ {p} : InSaveSection(q, e)

\* Lines 588-608: the forward passes and the loss; backward enters the all-reduce.
ProcForward(p) ==
    /\ mpc[p] = "batch"
    /\ mpc' = [mpc EXCEPT ![p] = "allreduce"]
    /\ UNCHANGED <<mcfg, mepoch, mstep, mcompleted, mwrites>>
    /\ UNCHANGED <<genVars, hookVars, trainVars, lossVars>>

\* Lines 608-616: the gradients are reduced over all processes, each process applies
\* the update and counts it.
ProcAllReduce ==
    /\ AllAt("allreduce")
    /\ mpc' = [p \in Procs |-> "checkpoint"]
    /\ mcompleted' = [p \in Procs |-> mcompleted[p] + 1]
    /\ UNCHANGED <<mcfg, mepoch, mstep, mwrites>>
    /\ UNCHANGED <<genVars, hookVars, trainVars, lossVars>>

\* Lines 625-633: every process evaluates the step checkpoint condition and calls
\* accelerator.save_state itself; then the break test and the next batch.
ProcStepCheckpoint(p) ==
    /\ mpc[p] = "checkpoint"
    /\ mwrites' = IF ShouldSaveStep(mcfg.checkpointing_steps, mcompleted[p])
                  THEN mwrites \cup {[proc |-> p, kind |-> "step", n |-> mcompleted[p],
                                      bracketed |-> Bracketed(p, mepoch[p])]}
                  ELSE mwrites
    /\ mstep' = [mstep EXCEPT ![p] = mstep[p] + 1]
    /\ mpc' = [mpc EXCEPT ![p] =
                  IF ReachedMax(mcompleted[p], mcfg.max_train_steps)
                     \/ mstep[p] + 1 = mcfg.num_batches
                  THEN "eval" ELSE "batch"]
    /\ UNCHANGED <<mcfg, mepoch, mcompleted>>
    /\ UNCHANGED <<genVars, hookVars, trainVars, lossVars>>

\* The next epoch of range(starting_epoch, num_train_epochs), or the end of it
NextEpoch(p) ==
    /\ mepoch' = [mepoch EXCEPT ![p] = mepoch[p] + 1]
    /\ mstep' = [mstep EXCEPT ![p] = 0]
    /\ mpc' = [mpc EXCEPT ![p] =
                  IF mepoch[p] + 1 < mcfg.num_train_epochs THEN "batch" ELSE "done"]

\* Lines 635-659: the evaluation batches; gather_for_metrics returns on every
\* process once every process has entered it.
ProcGather ==
    /\ AllAt("eval")
    /\ mpc' = [p \in Procs |-> "epoch_end"]
    /\ UNCHANGED <<mcfg, mepoch, mstep, mcompleted, mwrites>>
    /\ UNCHANGED <<genVars, hookVars, trainVars, lossVars>>

\* Lines 661-670: the metric and the log; with an output directory the process
\* enters wait_for_everyone, without one the epoch is over.
ProcEpochEnd(p) ==
    /\ mpc[p] = "epoch_end"
    /\ IF mcfg.output_dir # "None"
       THEN /\ mpc' = [mpc EXCEPT ![p] = "wait1"]
            /\ UNCHANGED <<mepoch, mstep>>
       ELSE NextEpoch(p)
    /\ UNCHANGED <<mcfg, mcompleted, mwrites>>
    /\ UNCHANGED <<genVars, hookVars, trainVars, lossVars>>

\* Line 670: wait_for_everyone returns
ProcBarrierBefore ==
    /\ AllAt("wait1")
    /\ mpc' = [p \in Procs |-> "save"]
    /\ UNCHANGED <<mcfg, mepoch, mstep, mcompleted, mwrites>>
    /\ UNCHANGED <<genVars, hookVars, trainVars, lossVars>>

\* Lines 671-694: the main process writes the epoch checkpoint (per-epoch
\* checkpointing), the model and the tokenizer; every process then enters the
\* second wait_for_everyone.
ProcEpochSave(p) ==
    /\ mpc[p] = "save"
    /\ mwrites' =
          IF is_main_process(p)
          THEN mwrites
               \cup (IF ShouldSaveEpoch(mcfg, mcfg.checkpointing_steps)
                     THEN {[proc |-> p, kind |-> "epoch", n |-> mepoch[p],
                            bracketed |-> Bracketed(p, mepoch[p])]}
                     ELSE {})
               \cup {[proc |-> p, kind |-> "model", n |-> mepoch[p],
                      bracketed |-> Bracketed(p, mepoch[p])]}
          ELSE mwrites
    /\ mpc' = [mpc EXCEPT ![p] = "wait2"]
    /\ UNCHANGED <<mcfg, mepoch, mstep, mcompleted>>
    /\ UNCHANGED <<genVars, hookVars, trainVars, lossVars>>

\* Line 694: wait_for_everyone returns, the epoch is over on every process
ProcBarrierAfter ==
    /\ AllAt("wait2")
    /\ mepoch' = [p \in Procs |-> mepoch[p] + 1]
    /\ mstep' = [p \in Procs |-> 0]
    /\ mpc' = [p \in Procs |->
                  IF mepoch[p] + 1 < mcfg.num_train_epochs THEN "batch" ELSE "done"]
    /\ UNCHANGED <<mcfg, mcompleted, mwrites>>
    /\ UNCHANGED <<genVars, hookVars, trainVars, lossVars>>

ProcNext ==
    \/ \E p \in Procs : ProcForward(p)
    \/ ProcAllReduce
    \/ \E p \in Procs : ProcStepCheckpoint(p)
    \/ ProcGather
    \/ \E p \in Procs : ProcEpochEnd(p)
    \/ ProcBarrierBefore
    \/ \E p \in Procs : ProcEpochSave(p)
    \/ ProcBarrierAfter

\* ------------------------------------------------------------------ get_loss
Scale == 10           \* similarities are the multiples of 1/Scale in [-1, 1]
MaxPairs == 2         \* pairs of one batch

\* torch.square
Square(x) == x * x

\* torch.clamp(x, min=0.0) without the lower bound: the value itself
Clamp0_NoFloor(x) == x

\* torch.clamp(x, min=0.0)
Clamp0(x) == IF x < 0 THEN 0 ELSE x

\* Lines 300-301 for one pair, in units of 1/Scale:
\* labels * (1 - cosine_score) + clamp((1 - labels) * cosine_score, min=0.0)
PairTerm(s, l) == l * (Scale - s) + Clamp0((1 - l) * s)

\* The sum of a sequence of numbers
RECURSIVE SumSeq(_)
SumSeq(q) == IF q = <<>> THEN 0 ELSE Head(q) + SumSeq(Tail(q))

\* Lines 297-303: the mean of the squares, as the fraction <<numerator, denominator>>
\* with the squares in units of 1/Scale^2
get_loss(cs, ls) ==
    <<SumSeq([i \in 1..Len(cs) |-> Square(PairTerm(cs[i], ls[i]))]),
      Len(cs) * Scale * Scale>>

\* A batch of 1..MaxPairs pairs, labels in {0, 1}, similarities in [-1, 1]
LossInit ==
    /\ \E n \in 1..MaxPairs :
          /\ cosine_score \in [1..n -> (0 - Scale)..Scale]
          /\ labels \in [1..n -> {0, 1}]
    /\ loss = <<>>
    /\ lpc = "call"

\* Lines 604-606: the training step calls get_loss on the batch
GetLossCall ==
    /\ lpc = "call"
    /\ loss' = get_loss(cosine_score, labels)
    /\ lpc' = "returned"
    /\ UNCHANGED <<cosine_score, labels>>
    /\ UNCHANGED <<genVars, hookVars, trainVars, mpVars>>

LossNext ==
    \/ GetLossCall

\* ------------------------------------------------------------ specifications
\* The parts of the program at rest, for the specifications of the other parts.
GenIdle ==
    /\ fileRows = 0
    /\ batch_size = 1
    /\ db = <<>>
    /\ gpc = [p \in Procs |-> "idle"]
    /\ gids = [p \in Procs |-> <<>>]
    /\ gchunks = [p \in Procs |-> <<>>]
    /\ gdocs = [p \in Procs |-> <<>>]
    /\ gout = [p \in Procs |-> <<>>]
    /\ gbase = [p \in Procs |-> 0]
    /\ invoked = 0
    /\ firstOut = <<>>

HookIdle ==
    /\ hook = "none"
    /\ hmodels = <<>>
    /\ hweights = <<>>
    /\ hweights0 = <<>>
    /\ hi = 0
    /\ hsaved = <<>>
    /\ hpopped = <<>>
    /\ hloaded = <<>>
    /\ hpc = "idle"

TrainIdle ==
    /\ args = [dataset_handling |-> "memory"]
    /\ accel_num_steps = 1
    /\ pc = "idle"
    /\ crash = "none"
    /\ len_train = 0
    /\ num_update_steps_per_epoch = 0
    /\ max_train_steps = 0
    /\ num_train_epochs = 0
    /\ checkpointing_steps = [type |-> "NoneType", n |-> 0]
    /\ completed_steps = 0
    /\ starting_epoch = 0
    /\ resume_step = Unbound
    /\ epoch = 0
    /\ step = 0
    /\ batches = 0
    /\ skipped = 0
    /\ total_loss = Unbound
    /\ accel_step = 0
    /\ grads = 0
    /\ updates = 0
    /\ saved = <<>>
    /\ epochsRun = {}
    /\ last = NoBatch

ProcIdle ==
    /\ mcfg = [output_dir |-> "None"]
    /\ mpc = [p \in Procs |-> "idle"]
    /\ mepoch = [p \in Procs |-> 0]
    /\ mstep = [p \in Procs |-> 0]
    /\ mcompleted = [p \in Procs |-> 0]
    /\ mwrites = {}

LossIdle ==
    /\ cosine_score = <<>>
    /\ labels = <<>>
    /\ loss = <<>>
    /\ lpc = "idle"

RestIdle == ProcIdle /\ LossIdle

InitGen == GenInit /\ HookIdle /\ TrainIdle /\ RestIdle

InitHook == GenIdle /\ HookInit /\ TrainIdle /\ RestIdle

Init == TrainInit /\ HookIdle /\ RestIdle

InitProcs == ProcInit /\ GenIdle /\ HookIdle /\ TrainIdle /\ LossIdle

InitLoss == LossInit /\ GenIdle /\ HookIdle /\ TrainIdle /\ ProcIdle

\* One call of get_loss on a batch
SpecLoss == InitLoss /\ [][LossNext]_vars

\* The processes of one run around the checkpoint writes
SpecProcs == InitProcs /\ [][ProcNext]_vars

\* The training run of main()
Spec == Init /\ [][TrainNext]_vars

\* Generator invocations of the processes on one store file
SpecGen == InitGen /\ [][GenNext]_vars

\* One call of a checkpoint hook
SpecHook == InitHook /\ [][HookNext]_vars

\* ------------------------------------------------------------------ claims
Occurrences(s, x) == Cardinality({i \in 1..Len(s) : s[i] = x})

SameMultiset(s, t) ==
    /\ Len(s) = Len(t)
    /\ \A x \in SeqToSet(s) \cup SeqToSet(t) : Occurrences(s, x) = Occurrences(t, x)

\* C1: an invocation of the generator that opened a fresh (empty) store and ran to
\* its end has yielded exactly one record per source row: N records, no row
\* skipped, no row twice, whatever the shuffle and the chunk size.
C1_FreshPassYieldsEachRowOnce ==
    \A p \in Procs :
        (gpc[p] = "closed" /\ gbase[p] = 0) =>
            /\ Len(gout[p]) = fileRows
            /\ \A r \in 1..fileRows : Occurrences(gout[p], [row |-> r]) = 1

\* C2: an optimizer update is applied only when gradient_accumulation_steps
\* consecutive batches have contributed to the gradients (or the epoch's data ended),
\* the gradients are cleared only together with an update, and completed_steps
\* grows by one per update and not otherwise.
C2_UpdateOnlyAfterAccumulation ==
    last.acted =>
        /\ last.updated => (last.contrib = args.gradient_accumulation_steps \/ last.eod)
        /\ last.zeroed => last.updated
        /\ completed_steps - last.before = (IF last.updated THEN 1 ELSE 0)

\* C3: no training batch is processed once completed_steps has reached
\* max_train_steps, so completed_steps never exceeds max_train_steps; and the loop
\* ends only when the epochs are exhausted.
C3_NoBatchAfterMaxSteps ==
    /\ last.acted => (last.before < max_train_steps /\ completed_steps <= max_train_steps)
    /\ pc = "done" => epoch >= num_train_epochs

\* C4: resuming from step_<n> with accumulation factor G sets resume_step to n*G,
\* the starting epoch to resume_step integer-divided by the per-epoch count,
\* resume_step to the remainder, reaches the training loop without error and skips
\* exactly that many batches in the starting epoch only.
C4_StepResumeReachesLoop ==
    LET r == args.resume_from_checkpoint
        rs == r.n * args.gradient_accumulation_steps
    IN (r.kind = "step" /\ pc \notin {"setup", "resume"} /\ crash # "StopIteration@388") =>
           /\ crash # "AttributeError@566"
           /\ starting_epoch = rs \div len_train
           /\ resume_step = IntVal(rs % len_train)
           /\ skipped = (IF epoch = starting_epoch /\ pc \in {"batch", "eval"}
                         THEN resume_step.v ELSE 0)

\* C5: resuming from epoch_<e> sets the starting epoch to e+1 and the completed-step
\* count to (e+1) * num_update_steps_per_epoch when the loop is entered, leaves
\* resume_step None so that no batch is skipped, and the loop runs the epochs
\* e+1 .. num_train_epochs-1, none other (none at all if e+1 >= num_train_epochs).
C5_EpochResume ==
    LET r == args.resume_from_checkpoint
    IN (r.kind = "epoch" /\ pc \notin {"setup", "resume"} /\ crash # "StopIteration@388") =>
           /\ starting_epoch = r.n + 1
           /\ resume_step = NoInt
           /\ skipped = 0
           /\ (pc = "epoch" /\ epoch = starting_epoch) =>
                  completed_steps = (r.n + 1) * num_update_steps_per_epoch
           /\ epoch >= r.n + 1
           /\ epochsRun \subseteq (r.n + 1)..(num_train_epochs - 1)
           /\ pc = "done" => epochsRun = (r.n + 1)..(num_train_epochs - 1)

\* C5 witness: a run resumed from epoch_<e> has run its remaining epochs to the end.
C5_Witness ==
    /\ args.resume_from_checkpoint.kind = "epoch"
    /\ pc = "done"
    /\ epochsRun # {}
    /\ completed_steps > starting_epoch * num_update_steps_per_epoch

\* C6: save_model_hook saves model i with weight entry i, pops the entry it has just
\* handled, raises no error, and returns with the weights list empty.
C6_SaveHookPopsHandledEntries ==
    hook = "save" =>
        /\ hpc # "IndexError"
        /\ \A i \in 1..Len(hsaved) :
               /\ hsaved[i] = <<hmodels[i], hweights0[i]>>
               /\ hpopped[i] = hweights0[i]
        /\ hpc = "returned" => (Len(hsaved) = Len(hmodels) /\ hweights = <<>>)

\* C7: with a numeric interval K, step_<n> is saved exactly when completed_steps
\* becomes a positive multiple n of K: never for n = 0, never for a count that is
\* not a multiple of K, never twice for the same n, and never missed.
C7_StepCheckpointAtMultiples ==
    checkpointing_steps.type = "int" =>
        /\ \A i \in 1..Len(saved) :
               saved[i].kind = "step" =>
                   /\ saved[i].n > 0
                   /\ saved[i].n % checkpointing_steps.n = 0
                   /\ \A j \in 1..Len(saved) : (j # i) => saved[j] # saved[i]
        /\ last.acted =>
               (last.savedStep <=>
                    (last.updated /\ completed_steps % checkpointing_steps.n = 0))

\* C8: with per-epoch checkpointing, epoch_<e> is saved exactly once at the end of
\* every epoch e the loop runs, whether an output directory is given or not; with
\* checkpointing unset or numeric no epoch_<e> is saved.
C8_EpochCheckpointEveryEpoch ==
    LET epochSaves(e) == Occurrences(saved, [kind |-> "epoch", n |-> e])
    IN /\ args.checkpointing_steps.kind = "epoch" =>
              \A e \in epochsRun : epochSaves(e) = 1
       /\ args.checkpointing_steps.kind # "epoch" =>
              \A i \in 1..Len(saved) : saved[i].kind # "epoch"

\* C9: while a generator invocation of some process is reading the store, no
\* invocation inserts into or modifies the store.
C9_StoreReadOnlyWhileShared ==
    [][(\E q \in Procs : gpc[q] = "running") => db' = db]_vars

\* C10: every invocation that runs to its end yields the same multiset of records as
\* the first one did, whatever invocations came before it.
C10_ReinvocationYieldsSameRecords ==
    \A p \in Procs :
        (gpc[p] = "closed" /\ firstOut # <<>>) => SameMultiset(gout[p], firstOut[1])

\* C11: every write to the checkpoint directory (a step_<n> state save, an epoch_<e>
\* state save, the model and tokenizer save) is initiated by the main process only
\* and is bracketed by a barrier: every other process is held between the
\* wait_for_everyone before the write and the one after it.
C11_WritesByMainUnderBarrier ==
    \A w \in mwrites : is_main_process(w.proc) /\ w.bracketed

\* What the claim says one pair adds to the sum of the mean, in units of 1/Scale^2:
\* (1 - s)^2 for a duplicate pair, s^2 for a non-duplicate pair of positive
\* similarity, nothing for a non-duplicate pair of similarity <= 0.
ClaimedContribution(s, l) ==
    IF l = 1 THEN (Scale - s) * (Scale - s)
    ELSE IF s > 0 THEN s * s ELSE 0

\* C12: for labels in {0,1} and similarities in [-1,1] the loss is zero exactly when
\* every pair of label 1 has similarity 1 and every pair of label 0 has similarity
\* <= 0, it is strictly positive for every other batch, and it is the mean of the
\* pairs' contributions (label*(1-s) + max(0,(1-label)*s))^2.
C12_LossZeroExactlyOnPerfectBatch ==
    lpc = "returned" =>
        LET n == Len(cosine_score)
            perfect == \A i \in 1..n :
                           /\ labels[i] = 1 => cosine_score[i] = Scale
                           /\ labels[i] = 0 => cosine_score[i] <= 0
        IN /\ loss[2] = n * Scale * Scale
           /\ loss[1] = SumSeq([i \in 1..n |-> ClaimedContribution(cosine_score[i], labels[i])])
           /\ perfect => loss[1] = 0
           /\ ~perfect => loss[1] > 0

\* C12 witness: a batch with a duplicate pair of similarity 1 and a non-duplicate
\* pair of negative similarity has loss zero.
C12_Witness ==
    /\ lpc = "returned"
    /\ loss[1] = 0
    /\ \E i, j \in 1..Len(labels) :
          /\ labels[i] = 1 /\ cosine_score[i] = Scale
          /\ labels[j] = 0 /\ cosine_score[j] < 0

\* C13: the loss accumulator is bound whenever a training batch is about to run or
\* has run, it is zero before the first batch of an epoch, with or without
\* tracking, and no run ends on reading it unbound.
C13_TotalLossInitialised ==
    /\ pc \in {"batch", "eval"} => total_loss.st = "int"
    /\ (pc = "batch" /\ step = 0) => total_loss = IntVal(0)
    /\ crash # "UnboundLocalError@607"

\* C14: resuming from the checkpoint that has just been written, with the same
\* dataset, batch size and accumulation factor, starts with completed_steps equal
\* to the count at the write and at the position that follows the write: for
\* epoch_<e> the start of epoch e+1 with no batch skipped, for step_<n> the same
\* epoch with the batches already processed skipped.
C14_CheckpointResumeRoundTrip ==
    LET outcome(r) == ResumeOutcome(r, len_train, num_update_steps_per_epoch,
                                    args.gradient_accumulation_steps)
        newest == saved[Len(saved)]
    IN /\ (pc = "epoch" /\ saved # <<>> /\ newest = [kind |-> "epoch", n |-> epoch - 1]) =>
              /\ outcome(newest).crash = "none"
              /\ outcome(newest).completed_steps = completed_steps
              /\ outcome(newest).starting_epoch = epoch
              /\ outcome(newest).resume_step = NoInt
       /\ (pc \in {"batch", "eval"} /\ last.acted /\ last.savedStep /\ step > 0) =>
              /\ outcome(newest).crash = "none"
              /\ outcome(newest).completed_steps = completed_steps
              /\ pc = "batch" =>
                     /\ outcome(newest).starting_epoch = epoch
                     /\ outcome(newest).resume_step = IntVal(step)

====
